---- MODULE Spec2Model ----
(***************************************************************************)
(* Model of src/server.py of zap-suite: the session log broadcaster        *)
(* (broadcast_log, generate_log_stream, get_logs), the orchestrator        *)
(* (run_all_tests), the test runner (run_wingman_test, checkout_branch)    *)
(* and the extraction pipeline (clean_raw_output,                          *)
(* extract_json_from_output, extract_tool_analytics).                      *)
(***************************************************************************)
EXTENDS Integers, Sequences, FiniteSets, TLC

(* ----------------------------- bounds --------------------------------- *)
\* total number of broadcast_log calls explored
MaxPublish == 2
\* total number of keepalive frames explored
MaxKeepalive == 1

\* largest number of repositories in the configuration
MaxRepos == 2
\* largest number of *.txt files in an inputs directory
MaxFiles == 2
\* largest run_count in the configuration
MaxRuns == 2
\* config.get('parallel_workers', 3): the default
DefaultWorkers == 3

Sessions == {"s1", "s2"}
Messages == {"a", "b"}
\* threads that call broadcast_log
Pubs == {"p1", "p2"}
\* generator instances of generate_log_stream (each owns one queue.Queue)
Streams == {"q1", "q2"}
\* request threads that call get_logs
Readers == {"r1"}
Threads == Pubs \cup Streams \cup Readers

Free == "free"
NoSession == "none"
NoMessage == "none"
NoResponse == [logs |-> <<>>, session_id |-> "none"]

VARIABLES
  active_logs,      \* session_id -> list of {timestamp, message}
  log_subscribers,  \* session_id -> list of subscriber queues
  log_lock,         \* Free or the thread holding the lock
  queues,           \* content of each stream's queue.Queue
  clock,            \* number of datetime.now() calls so far: each call
                    \* returns a later time than the one before
  pc,               \* position of every thread
  b_sid, b_msg,     \* arguments of the running broadcast_log call
  b_copy,           \* the copied subscriber list of the running call
  b_failed,         \* queues whose put raised in the running call
  g_sid,            \* session_id argument of each generator
  yielded,          \* frames each generator has yielded to its consumer
  hist_at_attach,   \* history the generator saw when it registered
  r_sid, snap,      \* argument and response of the get_logs call
  lock_order,       \* broadcast_log calls in lock acquisition order
  npub, nkeep,
  config,           \* the loaded configuration (read only)
  o_pc,             \* position of the run_all_tests request
  o_repo,           \* index in config['repos'] of the repository at hand
  repo_test_tasks,  \* the task tuples of the repository at hand
  o_submitted,      \* how many of them have been submitted to the executor
  o_yielded,        \* the futures as_completed has handed out
  o_raised,         \* those of them whose result() raised
  o_exc,            \* exception on its way out of run_all_tests
  fut,              \* state of the future of every task, per repository
  results,          \* the results list
  t_pc,             \* position of the run_wingman_test call
  branch_name,      \* its branch_name argument
  t_trace,          \* what the call did so far: lines published, external
                    \* calls made and what they returned or raised
  index_path,       \* the index path parsed from create_index's output
  stdout_output,    \* its local variables of the same names
  stderr_output,
  t_terminal,       \* the terminal state the call ended in
  t_ret,            \* the record the call returned
  x_pc,             \* position of the extraction pipeline run
  raw_output,       \* the text the pipeline is applied to
  x_cleaned,        \* what clean_raw_output returned
  x_json,           \* what extract_json_from_output returned
  x_analytics       \* what extract_tool_analytics returned

sharedVars == <<active_logs, log_subscribers, queues>>
pubVars    == <<b_sid, b_msg, b_copy, b_failed, lock_order, npub>>
streamVars == <<g_sid, yielded, hist_at_attach, nkeep>>
readVars   == <<r_sid, snap>>
orchVars   == <<config, o_pc, o_repo, repo_test_tasks, o_submitted, o_yielded,
                o_raised, o_exc, fut, results>>
logVars    == <<active_logs, log_subscribers, log_lock, queues, clock,
                pc, b_sid, b_msg, b_copy, b_failed, g_sid, yielded,
                hist_at_attach, r_sid, snap, lock_order, npub, nkeep>>
runnerVars == <<t_pc, branch_name, t_trace, index_path, stdout_output,
                stderr_output, t_terminal, t_ret>>
textVars   == <<x_pc, raw_output, x_cleaned, x_json, x_analytics>>
vars == <<logVars, orchVars, runnerVars, textVars>>

(* ----------------------------- helpers -------------------------------- *)
\* dict[k] = v
DictPut(d, k, v) == [x \in (DOMAIN d) \cup {k} |-> IF x = k THEN v ELSE d[x]]

\* dict.get(k, default)
DictGet(d, k, default) == IF k \in DOMAIN d THEN d[k] ELSE default

InList(x, l) == \E i \in 1..Len(l) : l[i] = x

RECURSIVE ListRemove(_, _)
\* list.remove(x): drops the first occurrence; the caller catches ValueError
ListRemove(l, x) ==
  IF l = <<>> THEN <<>>
  ELSE IF Head(l) = x THEN Tail(l)
  ELSE <<Head(l)>> \o ListRemove(Tail(l), x)

\* the record broadcast_log stores in the history
HistoryEntry(ts, m) == [timestamp |-> ts, message |-> m]

\* the record broadcast_log puts on a subscriber queue
LiveEntry(ts, m, s) == [timestamp |-> ts, message |-> m, session_id |-> s]

\* f"data: {json.dumps(log_entry)}\n\n"
DataFrame(entry) == [data |-> entry]

\* "data: {\"type\": \"keepalive\"}\n\n"
KeepaliveFrame == [data |-> [type |-> "keepalive"]]

\* a replay that sends only the newest entry
ReplayNewestOnly(hist) == IF hist = <<>> THEN <<>> ELSE <<hist[Len(hist)]>>

\* what generate_log_stream puts on the new queue: the whole history
ReplayEntries(hist) == hist

\* a copy that misses the most recent subscriber
SubscribersCopyButLast(subs) ==
  IF subs = <<>> THEN <<>> ELSE SubSeq(subs, 1, Len(subs) - 1)

\* the list broadcast_log iterates: a copy of the session's subscribers
SubscribersCopy(subs) == subs

\* a store that puts the new entry in front
AppendLogFront(hist, entry) == <<entry>> \o hist

\* the history after broadcast_log stored one more entry
AppendLog(hist, entry) == Append(hist, entry)

\* a loop whose try block is around the whole loop: the first put that
\* raises ends the deliveries
DeliveredUntilFailure(copy, F) ==
  {copy[i] : i \in {j \in 1..Len(copy) : \A k \in 1..j : copy[k] \notin F}}

\* the subscribers of the copy that get the entry when the puts on the
\* queues in F raise: the try block is inside the loop, so all the others
Delivered(copy, F) == {copy[i] : i \in 1..Len(copy)} \ F

\* a queue created with maxsize=1: put waits while an entry is pending
PutWaitsBounded(queue) == Len(queue) >= 1

\* queue.Queue() has no maxsize: put never waits for room
PutWaits(queue) == FALSE

\* an except clause that names queue.Full only: other exceptions leave
\* broadcast_log
ExceptFullOnly(F) == F = {}

\* the bare "except:" around put catches whatever put raises
ExceptCatches(F) == TRUE

(* ------------------------------ Init ---------------------------------- *)
\* the broadcaster at start-up (lines 30-32)
InitLog ==
  /\ active_logs = <<>>
  /\ log_subscribers = <<>>
  /\ log_lock = Free
  /\ queues = [q \in Streams |-> <<>>]
  /\ clock = 0
  /\ pc = [t \in Threads |-> IF t \in Streams THEN "created" ELSE "idle"]
  /\ b_sid = [p \in Pubs |-> NoSession]
  /\ b_msg = [p \in Pubs |-> NoMessage]
  /\ b_copy = [p \in Pubs |-> <<>>]
  /\ b_failed = [p \in Pubs |-> {}]
  /\ g_sid = [q \in Streams |-> NoSession]
  /\ yielded = [q \in Streams |-> <<>>]
  /\ hist_at_attach = [q \in Streams |-> <<>>]
  /\ r_sid = [r \in Readers |-> NoSession]
  /\ snap = [r \in Readers |-> NoResponse]
  /\ lock_order = <<>>
  /\ npub = 0
  /\ nkeep = 0

NoConfig == [parallel_workers |-> {}, run_count |-> 1, repos |-> <<>>]

\* no run_all_tests request is being served
OrchIdle ==
  /\ o_pc = "start"
  /\ o_repo = 0
  /\ repo_test_tasks = <<>>
  /\ o_submitted = 0
  /\ o_yielded = {}
  /\ o_raised = {}
  /\ o_exc = "none"
  /\ fut = <<>>
  /\ results = <<>>

\* python's None
None == <<"None">>

\* python's {}
EmptyDict == [k \in {} |-> 0]

\* no run_wingman_test call is being served
RunnerIdle ==
  /\ t_pc = "idle"
  /\ branch_name = "none"
  /\ t_trace = <<>>
  /\ index_path = None
  /\ stdout_output = <<>>
  /\ stderr_output = <<>>
  /\ t_terminal = "none"
  /\ t_ret = EmptyDict

\* the extraction pipeline is not in use
TextIdle ==
  /\ x_pc = "idle"
  /\ raw_output = <<>>
  /\ x_cleaned = <<>>
  /\ x_json = None
  /\ x_analytics = EmptyDict

Init == InitLog /\ OrchIdle /\ config = NoConfig /\ RunnerIdle /\ TextIdle


\* session ids and messages are opaque strings: the first one a call ever
\* names is called "s1" (resp. "a"), the others come into use after it
UsedSessions ==
  {b_sid[p] : p \in Pubs} \cup {g_sid[q] : q \in Streams}
    \cup {r_sid[r] : r \in Readers} \cup DOMAIN active_logs

SessionInputs == IF "s1" \in UsedSessions THEN Sessions ELSE {"s1"}

MessageInputs == IF lock_order # <<>> \/ \E p \in Pubs : b_msg[p] = "a"
                 THEN Messages ELSE {"a"}


(* --------------------------- broadcast_log ---------------------------- *)
\* the idle publisher thread that takes the next call: threads carry no
\* state between calls, so the first idle one stands for any of them
NextPublisher == CHOOSE p \in Pubs : pc[p] = "idle" /\ (p = "p1" \/ pc["p1"] # "idle")

\* a thread calls broadcast_log(s, m) and reaches "with log_lock"
BroadcastCall(p, s, m) ==
  /\ pc[p] = "idle"
  /\ p = NextPublisher
  /\ npub < MaxPublish
  /\ npub' = npub + 1
  /\ b_sid' = [b_sid EXCEPT ![p] = s]
  /\ b_msg' = [b_msg EXCEPT ![p] = m]
  /\ b_copy' = [b_copy EXCEPT ![p] = <<>>]
  /\ b_failed' = [b_failed EXCEPT ![p] = {}]
  /\ pc' = [pc EXCEPT ![p] = "b_wait"]
  /\ UNCHANGED <<orchVars, runnerVars, textVars, sharedVars, log_lock, clock, lock_order,
                 streamVars, readVars>>

BroadcastAcquire(p) ==
  /\ pc[p] = "b_wait"
  /\ log_lock = Free
  /\ log_lock' = p
  /\ lock_order' = Append(lock_order, <<b_sid[p], b_msg[p]>>)
  /\ pc' = [pc EXCEPT ![p] = "b_locked"]
  /\ UNCHANGED <<orchVars, runnerVars, textVars, sharedVars, clock, b_sid, b_msg, b_copy,
                 b_failed, npub, streamVars, readVars>>

\* position of subscriber q in the list l (0 when absent)
IndexOf(l, q) == IF InList(q, l) THEN CHOOSE i \in 1..Len(l) : l[i] = q ELSE 0

RECURSIVE RemoveAll(_, _)
\* the list after list.remove(q) ran for every q of the iterated copy whose
\* put raised (lines 56-61)
RemoveAll(l, copy) ==
  IF copy = <<>> THEN l ELSE RemoveAll(ListRemove(l, Head(copy)), Tail(copy))

\* lines 36-61: store the message, copy the subscriber list, put the entry
\* on every queue of the copy (the puts on the queues in F raise and those
\* subscribers are removed), release the lock and return
BroadcastBody(p, F) ==
  /\ pc[p] = "b_locked"
  /\ LET s == b_sid[p]
         m == b_msg[p]
         old == DictGet(active_logs, s, <<>>)
         copy == IF s \in DOMAIN log_subscribers
                 THEN SubscribersCopy(log_subscribers[s]) ELSE <<>>
         dead == SelectSeq(copy, LAMBDA q : q \in F)
     IN /\ F \subseteq {copy[i] : i \in 1..Len(copy)}
        /\ \A q \in Delivered(copy, F) : ~PutWaits(queues[q])
        /\ pc' = [pc EXCEPT ![p] =
                    IF ExceptCatches(F) THEN "idle" ELSE "b_raised"]
        /\ active_logs' =
             DictPut(active_logs, s, AppendLog(old, HistoryEntry(clock, m)))
        /\ queues' = [q \in Streams |->
                        IF q \in Delivered(copy, F)
                        THEN Append(queues[q],
                                    LiveEntry(clock + IndexOf(copy, q), m, s))
                        ELSE queues[q]]
        /\ log_subscribers' =
             IF s \in DOMAIN log_subscribers
             THEN [log_subscribers EXCEPT ![s] = RemoveAll(@, dead)]
             ELSE log_subscribers
        /\ b_copy' = [b_copy EXCEPT ![p] = copy]
        /\ b_failed' = [b_failed EXCEPT ![p] = F]
        /\ clock' = clock + 1 + Len(copy)
  /\ log_lock' = Free
  /\ UNCHANGED <<orchVars, runnerVars, textVars, b_sid, b_msg, lock_order, npub, streamVars,
                 readVars>>

(* ------------------------- generate_log_stream ------------------------ *)
\* generators are told apart only by their queue: they start in a fixed order
NextStream == CHOOSE q \in Streams : pc[q] = "created" /\ (q = "q1" \/ pc["q1"] # "created")

\* the consumer asks for the first frame: the generator body starts,
\* creates its queue and enters "with log_lock"
StreamStart(q, s) ==
  /\ pc[q] = "created"
  /\ q = NextStream
  /\ log_lock = Free
  /\ log_lock' = q
  /\ g_sid' = [g_sid EXCEPT ![q] = s]
  /\ pc' = [pc EXCEPT ![q] = "g_attach"]
  /\ UNCHANGED <<orchVars, runnerVars, textVars, sharedVars, clock, pubVars, yielded,
                 hist_at_attach, nkeep, readVars>>

\* a generator whose polling loop is inside the with block
LockKeptWhileStreaming(q) == q

\* line 82 is the last of the with block: the lock is released before the
\* polling loop of line 85 starts
LockAfterAttach(q) == Free

\* lines 70-82: register the queue, replay the history (the puts on the
\* new, unbounded queue do not raise), release the lock
StreamAttach(q) ==
  /\ pc[q] = "g_attach"
  /\ LET s == g_sid[q]
         hist == DictGet(active_logs, s, <<>>)
     IN /\ log_subscribers' =
             DictPut(log_subscribers, s,
                     Append(DictGet(log_subscribers, s, <<>>), q))
        /\ queues' = [queues EXCEPT ![q] = ReplayEntries(hist)]
        /\ hist_at_attach' = [hist_at_attach EXCEPT ![q] = hist]
  /\ log_lock' = LockAfterAttach(q)
  /\ pc' = [pc EXCEPT ![q] = "g_get"]
  /\ UNCHANGED <<orchVars, runnerVars, textVars, active_logs, clock, pubVars, g_sid, yielded,
                 nkeep, readVars>>

\* lines 85-89: the consumer asks for a frame, log_queue.get returns an
\* entry and the generator yields it
StreamYield(q) ==
  /\ pc[q] \in {"g_get", "g_yield"}
  /\ queues[q] # <<>>
  /\ yielded' = [yielded EXCEPT ![q] = Append(@, DataFrame(Head(queues[q])))]
  /\ queues' = [queues EXCEPT ![q] = Tail(@)]
  /\ pc' = [pc EXCEPT ![q] = "g_yield"]
  /\ UNCHANGED <<orchVars, runnerVars, textVars, active_logs, log_subscribers, log_lock, clock,
                 pubVars, g_sid, hist_at_attach, nkeep, readVars>>

\* a wait that may expire although an entry is pending
WaitExpiresAnyway(queue) == TRUE

\* lines 87 and 90: get(timeout=30) raises queue.Empty only when the wait
\* ended with nothing on the queue
WaitExpires(queue) == queue = <<>>

\* lines 90-92: the consumer asks for a frame and the 30 s wait expires on
\* an empty queue
StreamKeepalive(q) ==
  /\ pc[q] \in {"g_get", "g_yield"}
  /\ WaitExpires(queues[q])
  /\ nkeep < MaxKeepalive
  /\ nkeep' = nkeep + 1
  /\ yielded' = [yielded EXCEPT ![q] = Append(@, KeepaliveFrame)]
  /\ pc' = [pc EXCEPT ![q] = "g_yield"]
  /\ UNCHANGED <<orchVars, runnerVars, textVars, sharedVars, log_lock, clock, pubVars, g_sid,
                 hist_at_attach, readVars>>

\* the consumer closes the generator suspended at a yield: the finally
\* block runs and enters "with log_lock"
StreamClose(q) ==
  /\ pc[q] = "g_yield"
  /\ log_lock = Free
  /\ log_lock' = q
  /\ pc' = [pc EXCEPT ![q] = "g_td"]
  /\ UNCHANGED <<orchVars, runnerVars, textVars, sharedVars, clock, pubVars, streamVars, readVars>>

\* a cleanup that empties the session's subscriber list
TeardownClear(subs, q) == <<>>

\* the subscriber list of session s after the cleanup of queue q
TeardownRemove(subs, q) == IF InList(q, subs) THEN ListRemove(subs, q) ELSE subs

\* lines 95-100: remove the queue if it is still registered, release
StreamTeardown(q) ==
  /\ pc[q] = "g_td"
  /\ LET s == g_sid[q]
     IN log_subscribers' =
          IF s \in DOMAIN log_subscribers
          THEN [log_subscribers EXCEPT ![s] = TeardownRemove(@, q)]
          ELSE log_subscribers
  /\ log_lock' = Free
  /\ pc' = [pc EXCEPT ![q] = "g_closed"]
  /\ UNCHANGED <<orchVars, runnerVars, textVars, active_logs, queues, clock, pubVars, streamVars,
                 readVars>>

(* ------------------------------ get_logs ------------------------------ *)
\* a request thread calls get_logs(s) and enters "with log_lock"
SnapshotCall(r, s) ==
  /\ pc[r] = "idle"
  /\ log_lock = Free
  /\ log_lock' = r
  /\ r_sid' = [r_sid EXCEPT ![r] = s]
  /\ snap' = [snap EXCEPT ![r] = NoResponse]
  /\ pc' = [pc EXCEPT ![r] = "r_read"]
  /\ UNCHANGED <<orchVars, runnerVars, textVars, sharedVars, clock, pubVars, streamVars>>

\* a lookup by active_logs.setdefault(session_id, [])
LogsAfterSetdefault(logs, s) == DictPut(logs, s, DictGet(logs, s, <<>>))

\* active_logs after active_logs.get(session_id, []): get adds no key
LogsAfterGet(logs, s) == logs

\* lines 734-736: read the history, build the response, release the lock
SnapshotRead(r) ==
  /\ pc[r] = "r_read"
  /\ snap' = [snap EXCEPT ![r] =
                [logs |-> DictGet(active_logs, r_sid[r], <<>>),
                 session_id |-> r_sid[r]]]
  /\ active_logs' = LogsAfterGet(active_logs, r_sid[r])
  /\ log_lock' = Free
  /\ pc' = [pc EXCEPT ![r] = "idle"]
  /\ UNCHANGED <<orchVars, runnerVars, textVars, log_subscribers, queues, clock, pubVars, streamVars, r_sid>>

(* --------------------------- run_all_tests ---------------------------- *)
NoBranch == "none"
\* the parallel_workers settings explored, each as the set of the values
\* the key has: key absent, 1, 2
NoWorkers == {}
WorkerSettings == {NoWorkers, {1}, {2}}

\* a repository of the configuration: its position stands for repo_path,
\* inputs_path and output_path, files is what get_input_files finds there
RepoConfigs == [files : 0..MaxFiles, branch : {NoBranch}]

Configs ==
  [parallel_workers : WorkerSettings,
   run_count : 1..MaxRuns,
   repos : UNION {[1..n -> RepoConfigs] : n \in 1..MaxRepos}]

\* a value of max_workers that ignores the configuration
MaxWorkersIgnoringConfig(cfg) == DefaultWorkers

\* line 784: config.get('parallel_workers', 3)
MaxWorkers(cfg) ==
  IF cfg.parallel_workers = NoWorkers THEN DefaultWorkers
  ELSE CHOOSE n \in cfg.parallel_workers : TRUE

\* lines 796-803: the tuple appended for input file f and run number run
TaskTuple(cfg, r, f, run) ==
  <<r, f, <<"inputs", r>>, <<"output", r>>, run, cfg.repos[r].branch>>

\* lines 788-803: input files in the outer loop, runs in the inner loop
ExpandTasks(cfg, r) ==
  LET nf == cfg.repos[r].files
      nr == cfg.run_count
  IN [k \in 1..(nf * nr) |->
        TaskTuple(cfg, r, ((k - 1) \div nr) + 1, ((k - 1) % nr) + 1)]

\* "a, b, c, d, e = task" raises ValueError unless task has n elements
UnpackRaises(task, n) == Len(task) # n

IsFinished(state) == state = "finished"

RunningTasks(r) == {i \in 1..Len(fut[r]) : fut[r][i] = "running"}

\* an executor exit that does not wait for its tasks
PoolJoinedNoWait(states) == TRUE

\* ThreadPoolExecutor.__exit__ is shutdown(wait=True): it returns when every
\* submitted task has finished
PoolJoined(states) == \A i \in 1..Len(states) : IsFinished(states[i])

\* the record run_wingman_test returned, as far as the orchestrator reads it
TaskResult == [success |-> TRUE, error |-> "none"]

\* lines 815-820
TaggedResult(task) ==
  [repo |-> task[1], input_file |-> task[2], run_number |-> task[5],
   success |-> TaskResult.success, error |-> TaskResult.error]

\* lines 822-831
SyntheticResult(task) ==
  [repo |-> task[1], input_file |-> task[2], run_number |-> task[5],
   success |-> FALSE, error |-> "exception text"]

\* a run_all_tests request arrives with the configuration loaded
InitRun ==
  /\ InitLog
  /\ RunnerIdle
  /\ TextIdle
  /\ config \in Configs
  /\ o_pc = "repo_loop"
  /\ o_repo = 1
  /\ repo_test_tasks = <<>>
  /\ o_submitted = 0
  /\ o_yielded = {}
  /\ o_raised = {}
  /\ o_exc = "none"
  /\ fut = [r \in 1..Len(config.repos) |-> <<>>]
  /\ results = <<>>

\* line 833: the loop over the repositories is over
OrchReturn ==
  /\ o_pc = "repo_loop"
  /\ o_repo > Len(config.repos)
  /\ o_pc' = "done"
  /\ UNCHANGED <<logVars, runnerVars, textVars, config, o_repo, repo_test_tasks, o_submitted,
                 o_yielded, o_raised, o_exc, fut, results>>

\* lines 787-806: build the tasks of the next repository, create its pool
OrchPrepare ==
  /\ o_pc = "repo_loop"
  /\ o_repo <= Len(config.repos)
  /\ repo_test_tasks' = ExpandTasks(config, o_repo)
  /\ o_submitted' = 0
  /\ o_yielded' = {}
  /\ o_raised' = {}
  /\ o_pc' = "submit"
  /\ UNCHANGED <<logVars, runnerVars, textVars, config, o_repo, o_exc, fut, results>>

\* a submit that queues the task twice
SubmitTaskTwice(futs) == futs \o <<"pending", "pending">>

\* line 807: executor.submit creates one future for the task
SubmitTask(futs) == Append(futs, "pending")

\* line 807: executor.submit for the next task of the list
OrchSubmit ==
  /\ o_pc = "submit"
  /\ o_submitted < Len(repo_test_tasks)
  /\ o_submitted' = o_submitted + 1
  /\ fut' = [fut EXCEPT ![o_repo] = SubmitTask(@)]
  /\ UNCHANGED <<logVars, runnerVars, textVars, config, o_pc, o_repo, repo_test_tasks, o_yielded,
                 o_raised, o_exc, results>>

\* line 809: every task is submitted, as_completed starts
OrchSubmitted ==
  /\ o_pc = "submit"
  /\ o_submitted = Len(repo_test_tasks)
  /\ o_pc' = "collect"
  /\ UNCHANGED <<logVars, runnerVars, textVars, config, o_repo, repo_test_tasks, o_submitted,
                 o_yielded, o_raised, o_exc, fut, results>>

\* lines 809-831: as_completed hands out the finished future of task i;
\* its result() returns what the task returned or raises what it raised
OrchCollect(i, outcome) ==
  /\ o_pc = "collect"
  /\ i \in 1..Len(repo_test_tasks)
  /\ i \notin o_yielded
  /\ IsFinished(fut[o_repo][i])
  /\ o_yielded' = o_yielded \cup {i}
  /\ o_raised' = IF outcome = "raised" THEN o_raised \cup {i} ELSE o_raised
  /\ LET task == repo_test_tasks[i]
     IN IF UnpackRaises(task, 5)
        THEN /\ o_exc' = "ValueError"
             /\ o_pc' = "exit_pool"
             /\ UNCHANGED results
        ELSE /\ results' =
                  Append(results,
                         IF outcome = "returned"
                         THEN TaggedResult(task) ELSE SyntheticResult(task))
             /\ UNCHANGED <<o_exc, o_pc>>
  /\ UNCHANGED <<logVars, runnerVars, textVars, config, o_repo, repo_test_tasks, o_submitted, fut>>

\* the loop over as_completed is exhausted
OrchCollected ==
  /\ o_pc = "collect"
  /\ o_yielded = 1..Len(repo_test_tasks)
  /\ o_pc' = "exit_pool"
  /\ UNCHANGED <<logVars, runnerVars, textVars, config, o_repo, repo_test_tasks, o_submitted,
                 o_yielded, o_raised, o_exc, fut, results>>

\* line 806: the with block is left, normally or by an exception; the
\* exception goes on out of run_all_tests
OrchExitPool ==
  /\ o_pc = "exit_pool"
  /\ PoolJoined(fut[o_repo])
  /\ IF o_exc # "none"
     THEN o_pc' = "raised" /\ UNCHANGED o_repo
     ELSE o_pc' = "repo_loop" /\ o_repo' = o_repo + 1
  /\ UNCHANGED <<logVars, runnerVars, textVars, config, repo_test_tasks, o_submitted, o_yielded,
                 o_raised, o_exc, fut, results>>

\* a pool thread takes the oldest waiting task of its pool; the pool has at
\* most max_workers threads
TaskStart(r, i) ==
  /\ r \in DOMAIN fut
  /\ i \in 1..Len(fut[r])
  /\ fut[r][i] = "pending"
  /\ \A j \in 1..(i - 1) : fut[r][j] # "pending"
  /\ Cardinality(RunningTasks(r)) < MaxWorkers(config)
  /\ fut' = [fut EXCEPT ![r][i] = "running"]
  /\ UNCHANGED <<logVars, runnerVars, textVars, config, o_pc, o_repo, repo_test_tasks, o_submitted,
                 o_yielded, o_raised, o_exc, results>>

\* lines 772-775: run_test_parallel ends, the future is done
TaskFinish(r, i) ==
  /\ r \in DOMAIN fut
  /\ i \in 1..Len(fut[r])
  /\ fut[r][i] = "running"
  /\ fut' = [fut EXCEPT ![r][i] = "finished"]
  /\ UNCHANGED <<logVars, runnerVars, textVars, config, o_pc, o_repo, repo_test_tasks, o_submitted,
                 o_yielded, o_raised, o_exc, results>>

NextRun ==
  \/ OrchReturn
  \/ OrchPrepare
  \/ OrchSubmit
  \/ OrchSubmitted
  \/ \E i \in 1..(MaxFiles * MaxRuns), outcome \in {"returned", "raised"} :
       OrchCollect(i, outcome)
  \/ OrchCollected
  \/ OrchExitPool
  \/ \E r \in 1..MaxRepos, i \in 1..(MaxFiles * MaxRuns) : TaskStart(r, i)
  \/ \E r \in 1..MaxRepos, i \in 1..(MaxFiles * MaxRuns) : TaskFinish(r, i)

SpecRun == InitRun /\ [][NextRun]_vars

(* ------------------------------- Next --------------------------------- *)
\* The broadcaster as the program runs it: queue.Queue() is unbounded, so
\* put never raises and F (the queues whose put raises) is empty.
Next ==
  \/ \E p \in Pubs, s \in SessionInputs, m \in MessageInputs : BroadcastCall(p, s, m)
  \/ \E p \in Pubs : BroadcastAcquire(p)
  \/ \E p \in Pubs : BroadcastBody(p, {})
  \/ \E q \in Streams, s \in SessionInputs : StreamStart(q, s)
  \/ \E q \in Streams : StreamAttach(q)
  \/ \E q \in Streams : StreamYield(q)
  \/ \E q \in Streams : StreamKeepalive(q)
  \/ \E q \in Streams : StreamClose(q)
  \/ \E q \in Streams : StreamTeardown(q)

Spec == Init /\ [][Next]_vars

\* The broadcaster with get_logs requests and with puts of broadcast_log
\* that raise, which is what the except branch of lines 56-61 handles.
NextFault ==
  \/ \E p \in Pubs, s \in SessionInputs, m \in MessageInputs : BroadcastCall(p, s, m)
  \/ \E p \in Pubs : BroadcastAcquire(p)
  \/ \E p \in Pubs : \E F \in SUBSET Streams : BroadcastBody(p, F)
  \/ \E q \in Streams, s \in SessionInputs : StreamStart(q, s)
  \/ \E q \in Streams : StreamAttach(q)
  \/ \E q \in Streams : StreamYield(q)
  \/ \E q \in Streams : StreamClose(q)
  \/ \E q \in Streams : StreamTeardown(q)
  \/ \E r \in Readers, s \in SessionInputs : SnapshotCall(r, s)
  \/ \E r \in Readers : SnapshotRead(r)

SpecFault == Init /\ [][NextFault]_vars

(* ------------------------- broadcaster claims ------------------------- *)
\* the log entries a stream has yielded, keepalives left out
YieldedEntries(q) ==
  LET logs == SelectSeq(yielded[q], LAMBDA f : f # KeepaliveFrame)
  IN [i \in 1..Len(logs) |-> logs[i].data]

\* what a stream's consumer has got or will get: yielded, then pending
StreamEntries(q) == YieldedEntries(q) \o queues[q]

MessagesOf(entries) == [i \in 1..Len(entries) |-> entries[i].message]

IsAttached(q) ==
  /\ g_sid[q] \in DOMAIN log_subscribers
  /\ InList(q, log_subscribers[g_sid[q]])

HasAttached(q) == pc[q] \in {"g_get", "g_yield", "g_td", "g_closed"}

IsLive(entry) == "session_id" \in DOMAIN entry

\* C1: a stream's output starts with exactly the entries that were in the
\* session's history when it registered, in publish order; whatever follows
\* them was published after the registration.
ReplayBeforeLive ==
  \A q \in Streams :
    HasAttached(q) =>
      LET H == hist_at_attach[q]
          Y == StreamEntries(q)
          L == DictGet(active_logs, g_sid[q], <<>>)
      IN /\ Len(Y) >= Len(H)
         /\ SubSeq(Y, 1, Len(H)) = H
         /\ \A i \in (Len(H) + 1)..Len(Y) :
              /\ i <= Len(L)
              /\ Y[i].message = L[i].message
              /\ Y[i].timestamp > L[i].timestamp

\* a second stream registered on a session after the first one was torn
\* down, and has yielded the replayed entry and then a later one
ReplayBeforeLiveWitness ==
  /\ pc["q1"] = "g_closed"
  /\ g_sid["q2"] = g_sid["q1"]
  /\ Len(hist_at_attach["q2"]) = 1
  /\ Len(YieldedEntries("q2")) = 2
  /\ ~IsLive(YieldedEntries("q2")[1])
  /\ IsLive(YieldedEntries("q2")[2])

\* C2: for every attached subscriber the messages yielded so far followed
\* by the messages pending in its queue are the messages of the session's
\* history, each once and in order.
NoGapNoDuplicate ==
  \A q \in Streams :
    IsAttached(q) =>
      MessagesOf(StreamEntries(q)) =
        MessagesOf(DictGet(active_logs, g_sid[q], <<>>))

\* two subscribers of one session, one that registered before the first
\* publish and one that registered between the two publishes
NoGapNoDuplicateWitness ==
  /\ IsAttached("q1") /\ IsAttached("q2")
  /\ g_sid["q1"] = g_sid["q2"]
  /\ g_sid["q1"] \in DOMAIN active_logs
  /\ Len(active_logs[g_sid["q1"]]) = 2
  /\ active_logs[g_sid["q1"]][1].message # active_logs[g_sid["q1"]][2].message
  /\ Len(hist_at_attach["q1"]) = 0
  /\ Len(hist_at_attach["q2"]) = 1
  /\ Len(YieldedEntries("q2")) = 1
  /\ Len(queues["q2"]) = 1

\* a step in which publisher p runs the body of broadcast_log
BroadcastStep(p) == pc[p] = "b_locked" /\ pc'[p] # "b_locked"

\* the calls that have stored their entry, in lock acquisition order
StoredCalls ==
  IF \E p \in Pubs : pc[p] = "b_locked"
  THEN SubSeq(lock_order, 1, Len(lock_order) - 1) ELSE lock_order

\* C3: a broadcast_log(S, m) call adds one entry with message m at the end
\* of S's history and changes nothing else of any history; no other step
\* changes a history; the history order is the lock acquisition order.
HistoryStep ==
  \A s \in Sessions :
    LET old == DictGet(active_logs, s, <<>>)
        new == DictGet(active_logs', s, <<>>)
    IN IF \E p \in Pubs : BroadcastStep(p) /\ b_sid[p] = s
       THEN \E p \in Pubs :
              /\ BroadcastStep(p) /\ b_sid[p] = s
              /\ s \in DOMAIN active_logs'
              /\ Len(new) = Len(old) + 1
              /\ SubSeq(new, 1, Len(old)) = old
              /\ new[Len(new)].message = b_msg[p]
       ELSE /\ new = old
            /\ (s \in DOMAIN active_logs') = (s \in DOMAIN active_logs)

HistoryInLockOrder ==
  \A s \in Sessions :
    MessagesOf(DictGet(active_logs, s, <<>>)) =
      LET mine == SelectSeq(StoredCalls, LAMBDA c : c[1] = s)
      IN [i \in 1..Len(mine) |-> mine[i][2]]

HistoryAppendOnly == [][HistoryStep]_vars /\ []HistoryInLockOrder

\* two different messages stored in one session that has a subscriber
HistoryAppendOnlyWitness ==
  \E s \in DOMAIN active_logs :
    /\ Len(active_logs[s]) = 2
    /\ active_logs[s][1].message = "b"
    /\ active_logs[s][2].message = "a"
    /\ s \in DOMAIN log_subscribers
    /\ Len(log_subscribers[s]) = 1
    /\ pc["p1"] = "idle" /\ pc["p2"] = "idle"

\* C4: when the put on a subscriber's queue raises during
\* broadcast_log(S, m), that subscriber leaves S's subscriber list, m is in
\* S's history, and every other subscriber of S gets m in the same call and
\* stays subscribed.
FailedDeliveryStep ==
  \A p \in Pubs :
    BroadcastStep(p) =>
      LET s == b_sid[p]
          before == DictGet(log_subscribers, s, <<>>)
          failed == b_failed'[p]
      IN /\ Len(active_logs'[s]) > 0
         /\ active_logs'[s][Len(active_logs'[s])].message = b_msg[p]
         /\ \A i \in 1..Len(before) :
              LET q == before[i]
              IN IF q \in failed
                 THEN /\ ~InList(q, log_subscribers'[s])
                      /\ queues'[q] = queues[q]
                 ELSE /\ InList(q, log_subscribers'[s])
                      /\ Len(queues'[q]) = Len(queues[q]) + 1
                      /\ SubSeq(queues'[q], 1, Len(queues[q])) = queues[q]
                      /\ queues'[q][Len(queues'[q])].message = b_msg[p]
                      /\ queues'[q][Len(queues'[q])].session_id = s

FailedDeliveryIsolated == [][FailedDeliveryStep]_vars

\* a call has just returned in which the put on the first of two
\* subscribers raised and the second one got the message
FailedDeliveryIsolatedWitness ==
  \E p \in Pubs :
    /\ pc[p] = "idle"
    /\ b_copy[p] = <<"q1", "q2">>
    /\ b_failed[p] = {"q1"}
    /\ log_subscribers[b_sid[p]] = <<"q2">>
    /\ queues["q2"] # <<>>
    /\ queues["q2"][Len(queues["q2"])].message = b_msg[p]
    /\ queues["q1"] = <<>>

\* the step that ends the critical section of the thread holding the lock
HolderStep(t) ==
  \/ t \in Pubs /\ BroadcastBody(t, {})
  \/ t \in Streams /\ (StreamAttach(t) \/ StreamTeardown(t))
  \/ t \in Readers /\ SnapshotRead(t)

\* C5: no broadcast_log call raises; a call that holds the lock can always
\* run to its return, whatever the queues of the subscribers hold; when a
\* call waits for the lock, the lock is free or its holder can run to the
\* release without waiting for anything.
PublishCompletes ==
  \A p \in Pubs :
    /\ pc[p] # "b_raised"
    /\ pc[p] = "b_locked" => ENABLED BroadcastBody(p, {})
    /\ pc[p] = "b_wait" =>
         \/ log_lock = Free
         \/ log_lock \in Threads /\ ENABLED HolderStep(log_lock)

\* one call returned after a put raised and left an entry pending on the
\* other subscriber's queue; the next call waits for the lock that a
\* get_logs request holds
PublishCompletesWitness ==
  /\ pc["p1"] = "idle"
  /\ b_failed["p1"] # {}
  /\ pc["p2"] = "b_wait"
  /\ b_sid["p2"] = b_sid["p1"]
  /\ log_lock = "r1"
  /\ \E q \in Streams : IsAttached(q) /\ g_sid[q] = b_sid["p1"] /\ queues[q] # <<>>

RECURSIVE ListWithout(_, _)
\* the list l with every occurrence of x left out
ListWithout(l, x) ==
  IF l = <<>> THEN <<>>
  ELSE IF Head(l) = x THEN ListWithout(Tail(l), x)
  ELSE <<Head(l)>> \o ListWithout(Tail(l), x)

\* C6: the teardown of a stream takes that stream's queue, and nothing
\* else, out of its session's subscriber list; it changes nothing when the
\* queue is not in the list; it leaves the histories, the queues and the
\* other sessions' lists as they are; a torn down stream is in no list and
\* no later step puts anything on its queue.
DetachStep ==
  \A q \in Streams :
    /\ (pc[q] = "g_td" /\ pc'[q] = "g_closed") =>
         /\ active_logs' = active_logs
         /\ queues' = queues
         /\ DOMAIN log_subscribers' = DOMAIN log_subscribers
         /\ \A s \in DOMAIN log_subscribers :
              log_subscribers'[s] =
                IF s = g_sid[q] THEN ListWithout(log_subscribers[s], q)
                ELSE log_subscribers[s]
    /\ pc[q] = "g_closed" =>
         /\ pc'[q] = "g_closed"
         /\ queues'[q] = queues[q]
         /\ \A s \in DOMAIN log_subscribers' : ~InList(q, log_subscribers'[s])

DetachIdempotent == [][DetachStep]_vars

\* q1 was torn down after a publish had already pruned it, while q2 is
\* still subscribed to the same session and holds the message of that publish
DetachIdempotentWitness ==
  /\ pc["q1"] = "g_closed"
  /\ \E p \in Pubs : b_failed[p] = {"q1"} /\ b_copy[p] = <<"q1", "q2">>
  /\ IsAttached("q2")
  /\ g_sid["q2"] = g_sid["q1"]
  /\ queues["q2"] # <<>>

\* C7: get_logs(S) answers with S's history as it is when it reads it (the
\* empty list for an id without history) and changes neither a history,
\* nor a subscriber list, nor a queue.
SnapshotStep ==
  \A r \in Readers :
    (pc[r] = "r_read" /\ pc'[r] = "idle") =>
      /\ snap'[r].logs = DictGet(active_logs, r_sid[r], <<>>)
      /\ snap'[r].session_id = r_sid[r]
      /\ active_logs' = active_logs
      /\ log_subscribers' = log_subscribers
      /\ queues' = queues

SnapshotPureRead == [][SnapshotStep]_vars

\* a request for an id that has a subscriber but no history was answered
\* with the empty list while another session has a history
SnapshotPureReadWitness ==
  /\ pc["r1"] = "idle"
  /\ snap["r1"] = [logs |-> <<>>, session_id |-> r_sid["r1"]]
  /\ r_sid["r1"] \notin DOMAIN active_logs
  /\ r_sid["r1"] \in DOMAIN log_subscribers
  /\ active_logs # <<>>

(* ------------------------- orchestrator claims ------------------------ *)
\* the configured parallel_workers, 3 when the configuration gives none
ConfiguredWorkers ==
  IF config.parallel_workers = {} THEN 3
  ELSE CHOOSE n \in config.parallel_workers : TRUE

AllRunning == UNION {{<<r, i>> : i \in RunningTasks(r)} : r \in DOMAIN fut}

\* C8: at every instant the number of tasks that have started and not yet
\* finished is at most the configured parallel_workers (3 by default).
BoundedParallelism == Cardinality(AllRunning) <= ConfiguredWorkers

\* two workers are configured, two tasks run and two more wait
BoundedParallelismWitness ==
  /\ config.parallel_workers = {2}
  /\ o_repo \in DOMAIN fut
  /\ Len(repo_test_tasks) = 4
  /\ Cardinality(RunningTasks(o_repo)) = 2
  /\ \E i \in 1..Len(fut[o_repo]) : fut[o_repo][i] = "pending"

\* the orchestrator is done with the pool of repository r
HasLeftPool(r) ==
  \/ o_repo > r
  \/ o_repo = r /\ o_pc \in {"raised", "done"}

AllTasksFinished(r) ==
  /\ Len(fut[r]) = config.repos[r].files * config.run_count
  /\ \A i \in 1..Len(fut[r]) : fut[r][i] = "finished"

\* C9: no task of a later repository is submitted before every task of the
\* earlier ones has finished, tasks of two repositories never run at the
\* same time, and whichever way the orchestrator leaves a repository's
\* pool, every task of that repository has finished by then.
RepositoriesNeverOverlap ==
  /\ \A r1, r2 \in DOMAIN fut :
       (r1 < r2 /\ fut[r2] # <<>>) => AllTasksFinished(r1)
  /\ \A r1, r2 \in DOMAIN fut :
       (RunningTasks(r1) # {} /\ RunningTasks(r2) # {}) => r1 = r2
  /\ \A r \in DOMAIN fut : HasLeftPool(r) => AllTasksFinished(r)

\* collecting the first result failed while one task of the repository
\* runs and another waits, and a further repository with input files
\* follows: the orchestrator is held in the exit of the pool
RepositoriesNeverOverlapWitness ==
  /\ o_pc = "exit_pool"
  /\ o_exc = "ValueError"
  /\ o_repo \in DOMAIN fut
  /\ RunningTasks(o_repo) # {}
  /\ \E i \in 1..Len(fut[o_repo]) : fut[o_repo][i] = "pending"
  /\ o_repo + 1 \in DOMAIN fut
  /\ config.repos[o_repo + 1].files > 0

\* C10: when as_completed hands out a task that raised, the results list
\* gets a record for it with success false, the exception text and the
\* task's repo, input file and run number, and the batch goes on.
RaisingTaskRecorded ==
  \A i \in o_raised :
    /\ o_exc = "none"
    /\ o_pc # "raised"
    /\ \E k \in 1..Len(results) :
         /\ results[k].success = FALSE
         /\ results[k].error = "exception text"
         /\ results[k].repo = repo_test_tasks[i][1]
         /\ results[k].input_file = repo_test_tasks[i][2]
         /\ results[k].run_number = repo_test_tasks[i][5]

\* the tasks of the expansion: repository x input file x run number
AllTasks ==
  {t \in (1..MaxRepos) \X (1..MaxFiles) \X (1..MaxRuns) :
     /\ t[1] \in DOMAIN config.repos
     /\ t[2] <= config.repos[t[1]].files
     /\ t[3] <= config.run_count}

\* the records of the results list that carry the tags of task t
RecordsOf(t) ==
  {k \in 1..Len(results) :
     /\ results[k].repo = t[1]
     /\ results[k].input_file = t[2]
     /\ results[k].run_number = t[3]}

\* C11: run_all_tests ends by returning, and the list it returns holds
\* exactly one record for every task of the expansion, tagged with the
\* task's repo, input file and run number.
OneResultPerTask ==
  o_pc \in {"done", "raised"} =>
    /\ o_pc = "done"
    /\ Len(results) = Cardinality(AllTasks)
    /\ \A t \in AllTasks : Cardinality(RecordsOf(t)) = 1

(* ------------------------------- texts -------------------------------- *)
\* A text (process output, message) is the sequence of its lexical units:
\* a unit is a run of characters that the regular expressions of the
\* pipeline take or leave as a whole.
Esc == "ESC"                      \* an ANSI sequence \x1b[...m
Thinking == "Thinking..."
NL == "NL"                        \* \n
Space == " "
ToolWord == "Tool"
ExecTime == " execution time: "
Ms == "ms"
FenceOpen == "fence+json"           \* three backquotes and the word json
Fence == "fence"                    \* three backquotes
EvOpen == "{evaluation_results:["  \* {"evaluation_results":[
AnOpen == "{analysis_results:["    \* {"analysis_results":[
Close == "]}"

\* \d
Digits == {"0", "1", "2", "8"}
\* \w
WordUnits == {ToolWord, Ms, "alpha", "beta", "x"} \cup Digits
\* \s
IsSpace(u) == u \in {Space, NL}

DigitValue(u) == CASE u = "0" -> 0 [] u = "1" -> 1 [] u = "2" -> 2 [] u = "8" -> 8

RECURSIVE IntOf(_)
\* int(execution_time)
IntOf(ds) ==
  IF ds = <<>> THEN 0
  ELSE 10 * IntOf(SubSeq(ds, 1, Len(ds) - 1)) + DigitValue(ds[Len(ds)])

Max(S) == CHOOSE n \in S : \A m \in S : m <= n
Min(S) == CHOOSE n \in S : \A m \in S : n <= m

\* the end of the longest run of units of S that starts at i (i - 1 when
\* t[i] is not in S): what a greedy S+ takes
RunEnd(t, i, S) ==
  Max({j \in (i - 1)..Len(t) : \A k \in i..j : t[k] \in S})

\* text[from:to], empty when to < from
Slice(t, from, to) == IF to < from THEN <<>> ELSE SubSeq(t, from, to)

\* str.strip()
Strip(t) ==
  LET solid == {i \in 1..Len(t) : ~IsSpace(t[i])}
  IN IF solid = {} THEN <<>> ELSE SubSeq(t, Min(solid), Max(solid))

NoMatch == [end |-> 0]

\* a pattern in which the space after "Tool" is optional
ToolPrefixOptionalSpace(t, i) ==
  IF i <= Len(t) /\ t[i] = ToolWord
  THEN IF i + 1 <= Len(t) /\ t[i + 1] = Space THEN i + 1 ELSE i
  ELSE 0

\* the literal "Tool " of the pattern matched at position i: the position
\* of its last unit, 0 when it does not match
ToolPrefix(t, i) ==
  IF i + 1 <= Len(t) /\ t[i] = ToolWord /\ t[i + 1] = Space THEN i + 1 ELSE 0

\* r'Tool (\w+) execution time: (\d+)ms' matched at position i: the two
\* groups and the position of the last unit, or NoMatch
ToolMatch(t, i) ==
  LET p == ToolPrefix(t, i)
      w == RunEnd(t, p + 1, WordUnits)
      d == RunEnd(t, w + 2, Digits)
  IN IF /\ p > 0
        /\ w > p
        /\ w + 1 <= Len(t)
        /\ t[w + 1] = ExecTime
        /\ d > w + 1
        /\ d + 1 <= Len(t)
        /\ t[d + 1] = Ms
     THEN [end |-> d + 1, tool |-> SubSeq(t, p + 1, w),
           time |-> SubSeq(t, w + 2, d)]
     ELSE NoMatch

RECURSIVE FindAll(_, _)
\* re.findall(tool_pattern, t): the matches from position i on, left to
\* right, each search starting after the match before
FindAll(t, i) ==
  IF i > Len(t) THEN <<>>
  ELSE LET m == ToolMatch(t, i)
       IN IF m.end > 0 THEN <<m>> \o FindAll(t, m.end + 1)
          ELSE FindAll(t, i + 1)

RECURSIVE RemoveTools(_, _)
\* re.sub(r'Tool \w+ execution time: \d+ms', '', t) from position i on
RemoveTools(t, i) ==
  IF i > Len(t) THEN <<>>
  ELSE LET m == ToolMatch(t, i)
       IN IF m.end > 0 THEN RemoveTools(t, m.end + 1)
          ELSE <<t[i]>> \o RemoveTools(t, i + 1)

RECURSIVE Accumulate(_, _)
\* lines 229-237: the loop over the matches
Accumulate(analytics, matches) ==
  IF matches = <<>> THEN analytics
  ELSE LET execution_time_ms == IntOf(Head(matches).time)
       IN Accumulate(
            [tools_executed |->
               Append(analytics.tools_executed,
                      [tool |-> Head(matches).tool,
                       execution_time_ms |-> execution_time_ms]),
             total_execution_time |->
               analytics.total_execution_time + execution_time_ms,
             tool_count |-> analytics.tool_count + 1],
            Tail(matches))

\* lines 212-244; the fields in seconds (execution_time_s,
\* total_execution_time_s) are the same numbers divided by 1000 and are
\* left out
extract_tool_analytics(raw) ==
  IF raw = <<>> THEN EmptyDict
  ELSE Accumulate([tools_executed |-> <<>>, total_execution_time |-> 0,
                   tool_count |-> 0],
                  FindAll(raw, 1))

RECURSIVE CollapseBlankLines(_)
\* re.sub(r'\n\s*\n', '\n', t): a newline, the longest run of whitespace
\* that ends with a newline, replaced by one newline
CollapseBlankLines(t) ==
  IF t = <<>> THEN <<>>
  ELSE IF Head(t) # NL THEN <<Head(t)>> \o CollapseBlankLines(Tail(t))
  ELSE LET rest == Tail(t)
           run == RunEnd(rest, 1, {Space, NL})
           nls == {k \in 1..run : rest[k] = NL}
       IN IF nls = {} THEN <<NL>> \o CollapseBlankLines(rest)
          ELSE <<NL>> \o CollapseBlankLines(Slice(rest, Max(nls) + 1, Len(rest)))

\* re.sub(r'^\s*\n', '', t): leading whitespace up to its last newline
DropLeadingBlank(t) ==
  LET run == RunEnd(t, 1, {Space, NL})
      nls == {k \in 1..run : t[k] = NL}
  IN IF nls = {} THEN t ELSE Slice(t, Max(nls) + 1, Len(t))

\* re.sub(r'\n\s*$', '', t): from the first newline of the trailing
\* whitespace to the end
DropTrailingBlank(t) ==
  LET solid == {i \in 1..Len(t) : ~IsSpace(t[i])}
      from == IF solid = {} THEN 1 ELSE Max(solid) + 1
      nls == {k \in from..Len(t) : t[k] = NL}
  IN IF nls = {} THEN t ELSE Slice(t, 1, Min(nls) - 1)

RECURSIVE CollapseSpaces(_)
\* re.sub(r' +', ' ', t)
CollapseSpaces(t) ==
  IF Len(t) < 2 THEN t
  ELSE IF t[1] = Space /\ t[2] = Space THEN CollapseSpaces(Tail(t))
  ELSE <<t[1]>> \o CollapseSpaces(Tail(t))

\* lines 113-144: ANSI sequences, "Thinking..." and tool time messages
\* removed, blank lines and runs of spaces collapsed, the ends stripped
\* (the spinner characters of lines 125-128 are not among the units)
clean_raw_output(raw) ==
  IF raw = <<>> THEN <<>>
  ELSE LET a == SelectSeq(raw, LAMBDA u : u # Esc)
           b == SelectSeq(a, LAMBDA u : u # Thinking)
           c == RemoveTools(b, 1)
           d == CollapseBlankLines(c)
           e == DropLeadingBlank(d)
           f == DropTrailingBlank(e)
           g == CollapseSpaces(f)
       IN Strip(g)

\* a JSON number
IsNumber(t) ==
  /\ t # <<>>
  /\ \A i \in 1..Len(t) : t[i] \in Digits
  /\ (Len(t) = 1 \/ t[1] # "0")

\* json.loads(t) returns (does not raise JSONDecodeError): over the units
\* above t is a number or an object with the one key evaluation_results
\* or analysis_results whose list is empty or holds one number
Parses(t) ==
  LET core == Strip(t)
  IN \/ IsNumber(core)
     \/ /\ Len(core) >= 2
        /\ core[1] \in {EvOpen, AnOpen}
        /\ core[Len(core)] = Close
        /\ LET body == Strip(Slice(core, 2, Len(core) - 1))
           IN body = <<>> \/ IsNumber(body)

NoCandidate == [found |-> FALSE, text |-> <<>>]

\* position of the first unit of S after position i (0 when there is none)
FirstAfter(t, i, S) ==
  LET js == {j \in (i + 1)..Len(t) : t[j] \in S}
  IN IF js = {} THEN 0 ELSE Min(js)

\* re.search(r'```json\s*(.*?)\s*```', t, re.DOTALL), group(1).strip():
\* the leftmost opening fence that has three backquotes after it (those of
\* another opening fence will do), up to the first of them
FencedCandidate(t) ==
  LET starts == {i \in 1..Len(t) :
                   t[i] = FenceOpen /\ FirstAfter(t, i, {Fence, FenceOpen}) > 0}
  IN IF starts = {} THEN NoCandidate
     ELSE LET i == Min(starts)
              j == FirstAfter(t, i, {Fence, FenceOpen})
          IN [found |-> TRUE, text |-> Strip(Slice(t, i + 1, j - 1))]

\* re.search(r'(\{"<key>":\[.*?\]\})', t): the leftmost opener whose first
\* "]}" comes before the end of its line, up to that "]}"
SingleLineCandidate(t, open) ==
  LET starts == {i \in 1..Len(t) :
                   /\ t[i] = open
                   /\ FirstAfter(t, i, {Close}) > 0
                   /\ \A k \in (i + 1)..FirstAfter(t, i, {Close}) : t[k] # NL}
  IN IF starts = {} THEN NoCandidate
     ELSE LET i == Min(starts)
          IN [found |-> TRUE,
              text |-> Strip(SubSeq(t, i, FirstAfter(t, i, {Close})))]

\* re.search(r'(\{[^}]*"<key>":\s*\[[\s\S]*?\]\s*\})', t): the leftmost
\* "{" that reaches the key before any "}", up to the first "]}" after it
MultiLineCandidate(t, open) ==
  LET starts == {i \in 1..Len(t) :
                   /\ t[i] \in {EvOpen, AnOpen}
                   /\ FirstAfter(t, i, {Close}) > 0
                   /\ \E k \in i..FirstAfter(t, i, {Close}) : t[k] = open}
  IN IF starts = {} THEN NoCandidate
     ELSE LET i == Min(starts)
          IN [found |-> TRUE,
              text |-> Strip(SubSeq(t, i, FirstAfter(t, i, {Close})))]

LastRung == 5

\* the searches of lines 158, 168, 178, 188, 198
RungCandidate(t, k) ==
  CASE k = 1 -> FencedCandidate(t)
    [] k = 2 -> SingleLineCandidate(t, EvOpen)
    [] k = 3 -> SingleLineCandidate(t, AnOpen)
    [] k = 4 -> MultiLineCandidate(t, EvOpen)
    [] k = 5 -> MultiLineCandidate(t, AnOpen)

\* a ladder that gives up at the first candidate that does not parse
AfterDecodeErrorGiveUp(k) == LastRung + 1

\* "except json.JSONDecodeError: pass": on to the next search
AfterDecodeError(k) == k + 1

RECURSIVE Ladder(_, _)
\* lines 158-207 from the k-th search on
Ladder(cleaned, k) ==
  IF k > LastRung THEN None
  ELSE LET m == RungCandidate(cleaned, k)
       IN IF ~m.found THEN Ladder(cleaned, k + 1)
          ELSE IF Parses(m.text) THEN m.text
          ELSE Ladder(cleaned, AfterDecodeError(k))

\* lines 146-210
extract_json_from_output(raw) ==
  IF raw = <<>> THEN None ELSE Ladder(clean_raw_output(raw), 1)

(* ----------------------- the pipeline on its own ---------------------- *)
\* largest number of chunks in a text handed to the pipeline
MaxChunks == 2

ToolLine(name, ds) == <<ToolWord, Space, name, ExecTime>> \o ds \o <<Ms>>

\* the pieces the explored texts are made of
Chunks ==
  { <<Esc>>, <<Thinking>>, <<"x">>, <<Space>>, <<NL>>,
    ToolLine("alpha", <<"1", "2", "0">>),
    ToolLine("beta", <<"8", "0">>),
    <<NL, ToolWord, "beta", ExecTime, "8", "0", Ms>>,
    <<FenceOpen, NL, EvOpen, "1", Close, NL, Fence>>,
    <<FenceOpen, "x", Fence>>,
    <<EvOpen, "1", Close>>,
    <<EvOpen, "x", Close>>,
    <<AnOpen, "1", Close>>,
    <<EvOpen, NL, "1", NL, Close>>,
    <<AnOpen, NL, "1", NL, Close>> }

RECURSIVE Flatten(_)
Flatten(chunks) ==
  IF chunks = <<>> THEN <<>> ELSE Head(chunks) \o Flatten(Tail(chunks))

TextsOf(n) == {Flatten(cs) : cs \in UNION {[1..m -> Chunks] : m \in 0..n}}

\* a text arrives at the pipeline
InitText ==
  /\ InitLog
  /\ OrchIdle
  /\ config = NoConfig
  /\ RunnerIdle
  /\ x_pc = "clean"
  /\ raw_output \in TextsOf(MaxChunks)
  /\ x_cleaned = <<>>
  /\ x_json = None
  /\ x_analytics = EmptyDict

CleanCall ==
  /\ x_pc = "clean"
  /\ x_cleaned' = clean_raw_output(raw_output)
  /\ x_pc' = "extract"
  /\ UNCHANGED <<logVars, orchVars, runnerVars, raw_output, x_json, x_analytics>>

ExtractCall ==
  /\ x_pc = "extract"
  /\ x_json' = extract_json_from_output(raw_output)
  /\ x_pc' = "analytics"
  /\ UNCHANGED <<logVars, orchVars, runnerVars, raw_output, x_cleaned, x_analytics>>

AnalyticsCall ==
  /\ x_pc = "analytics"
  /\ x_analytics' = extract_tool_analytics(raw_output)
  /\ x_pc' = "done"
  /\ UNCHANGED <<logVars, orchVars, runnerVars, raw_output, x_cleaned, x_json>>

NextText == CleanCall \/ ExtractCall \/ AnalyticsCall

SpecText == InitText /\ [][NextText]_vars

(* --------------------------- pipeline claims -------------------------- *)
\* the searches whose candidate exists and parses
GoodRungs(t) ==
  {k \in 1..LastRung :
     RungCandidate(t, k).found /\ Parses(RungCandidate(t, k).text)}

\* C18: extract_json_from_output returns the candidate of the first of the
\* five searches (fenced block, single-line evaluation_results, single-line
\* analysis_results, multi-line evaluation_results, multi-line
\* analysis_results) whose candidate exists and parses as JSON, whatever
\* the earlier searches found, and none when there is no such search or
\* the input is empty.
ExtractionLadder ==
  x_pc \in {"analytics", "done"} =>
    LET cleaned == clean_raw_output(raw_output)
        good == GoodRungs(cleaned)
    IN x_json = IF raw_output = <<>> \/ good = {} THEN None
                ELSE RungCandidate(cleaned, Min(good)).text

\* the fenced block does not parse, there is no single-line
\* evaluation_results object, and the single-line analysis_results object
\* is returned
ExtractionLadderWitness ==
  /\ x_pc = "done"
  /\ LET cleaned == clean_raw_output(raw_output)
     IN /\ RungCandidate(cleaned, 1).found
        /\ ~Parses(RungCandidate(cleaned, 1).text)
        /\ ~RungCandidate(cleaned, 2).found
        /\ RungCandidate(cleaned, 3).found
        /\ x_json = RungCandidate(cleaned, 3).text
        /\ x_json # None

\* 'Tool <name> execution time: <N>ms' occurs at position i of t, the name
\* ending at w and the number at d
MarkerAt(t, i, w, d) ==
  /\ d + 1 <= Len(t)
  /\ t[i] = ToolWord
  /\ t[i + 1] = Space
  /\ w >= i + 2
  /\ \A k \in (i + 2)..w : t[k] \in WordUnits
  /\ t[w + 1] = ExecTime
  /\ d >= w + 2
  /\ \A k \in (w + 2)..d : t[k] \in Digits
  /\ t[d + 1] = Ms

Occurrences(t) ==
  UNION {{<<i, w, d>> : <<w, d>> \in
            {wd \in ((i + 2)..Len(t)) \X ((i + 4)..Len(t)) :
               MarkerAt(t, i, wd[1], wd[2])}} :
         i \in {j \in 1..Len(t) : t[j] = ToolWord}}

\* the k-th occurrence from the left
NthOccurrence(t, k) ==
  CHOOSE o \in Occurrences(t) :
    Cardinality({p \in Occurrences(t) : p[1] < o[1]}) = k - 1

RECURSIVE SumOfTimes(_)
SumOfTimes(items) ==
  IF items = <<>> THEN 0
  ELSE Head(items).execution_time_ms + SumOfTimes(Tail(items))

\* 'Tool alpha execution time: 120ms' and, on the next line,
\* 'Toolbeta execution time: 80ms'
AlphaThenToolbeta ==
  ToolLine("alpha", <<"1", "2", "0">>) \o <<NL>>
    \o <<ToolWord, "beta", ExecTime, "8", "0", Ms>>

MaxOutChunks == 1

\* the session_id of the call
RunnerSession == "s1"

Branches == {NoBranch, "feature"}

\* what the analysis process writes to its stdout and stderr
Outputs == TextsOf(MaxOutChunks)
StderrTexts == {<<>>, <<"stderr">>}

\* str(e) of an exception
ExceptionText == <<"exception text">>
GitStderr == <<"git stderr">>

\* what is left of the broadcaster when run_wingman_test publishes: no
\* stream is attached to the runner's session in this specification
logRest == <<log_subscribers, log_lock, queues, pc, pubVars, streamVars,
             readVars>>

(* the entries of t_trace *)
LogLine(m) == [ev |-> "log", what |-> m]
Called(fn) == [ev |-> "call", what |-> fn]
Returned(fn, value) == [ev |-> "return", what |-> fn, value |-> value]
\* output is what the subprocess module had captured of the child's stdout
\* when it raised
Raised(fn, exc, output) ==
  [ev |-> "raise", what |-> fn, exc |-> exc, output |-> output]
\* a call of save_raw_output(..., stdout, stderr, success); saved tells
\* whether it wrote the files or caught an exception and returned None
SaveCall(stdout, stderr, success, sink) ==
  [ev |-> "save", what |-> "save_raw_output", stdout |-> stdout,
   stderr |-> stderr, success |-> success, saved |-> (sink = "saved")]

SinkOutcomes == {"saved", "failed"}

\* lines 333-340: the dict of file names, or None (here the empty dict)
\* when writing failed
save_raw_output(stderr, sink) ==
  IF sink = "saved"
  THEN [stdout_file |-> "stdout.txt",
        stderr_file |-> IF stderr = <<>> THEN "None" ELSE "stderr.txt"]
  ELSE EmptyDict

LogLinesOf(evs) ==
  LET logs == SelectSeq(evs, LAMBDA e : e.ev = "log")
  IN [i \in 1..Len(logs) |-> logs[i].what]

RECURSIVE PublishAll(_, _, _, _)
\* broadcast_log(s, m) for every m of msgs, the first at time ts
PublishAll(logs, s, msgs, ts) ==
  IF msgs = <<>> THEN logs
  ELSE PublishAll(
         DictPut(logs, s,
                 AppendLog(DictGet(logs, s, <<>>),
                           HistoryEntry(ts, Head(msgs)))),
         s, Tail(msgs), ts + 1)

\* the call goes through evs: its broadcast_log calls reach the history
Emit(evs) ==
  /\ t_trace' = t_trace \o evs
  /\ active_logs' =
       PublishAll(active_logs, RunnerSession, LogLinesOf(evs), clock)
  /\ clock' = clock + Len(LogLinesOf(evs))

\* the call returns ret
Return(evs, terminal, ret) ==
  /\ Emit(evs)
  /\ t_pc' = "returned"
  /\ t_terminal' = terminal
  /\ t_ret' = ret

\* the call goes on at position next
GoOn(evs, next) ==
  /\ Emit(evs)
  /\ t_pc' = next
  /\ UNCHANGED <<t_terminal, t_ret>>

(* checkout_branch *)
\* what the two git commands do: list is the outcome of "git branch -a",
\* listed whether its output names the branch (as a local or as a
\* remote-tracking branch), checkout the outcome of "git checkout"
CheckoutOutcomes ==
  {o \in [list : {"ok", "fail", "timeout", "error"},
          listed : BOOLEAN,
          checkout : {"ok", "fail", "timeout", "error"}] :
     /\ o.list # "ok" => ~o.listed
     /\ ~o.listed => o.checkout = "ok"}

\* lines 246-289
checkout_branch(branch, o) ==
  LET timeout == [success |-> FALSE,
                  message |-> <<"Timeout while checking out branch ", branch>>]
      error == [success |-> FALSE,
                message |-> <<"Error checking out branch ", branch, ": ">>
                              \o ExceptionText]
  IN IF o.list = "timeout" THEN timeout
     ELSE IF o.list = "error" THEN error
     ELSE IF o.list = "fail"
       THEN [success |-> FALSE,
             message |-> <<"Failed to list branches: ">> \o GitStderr]
     ELSE IF ~o.listed
       THEN [success |-> FALSE,
             message |-> <<"Branch ", branch,
                           " does not exist in repository">>]
     ELSE IF o.checkout = "timeout" THEN timeout
     ELSE IF o.checkout = "error" THEN error
     ELSE IF o.checkout = "ok"
       THEN [success |-> TRUE,
             message |-> <<"Successfully checked out branch ", branch>>]
     ELSE [success |-> FALSE,
           message |-> <<"Failed to checkout branch ", branch, ": ">>
                         \o GitStderr]

(* the records run_wingman_test returns; their duration, timestamp and
   commands fields are left out *)
\* lines 376-387
BranchFailureResult(error_msg, branch_message) ==
  [success |-> FALSE, output |-> EmptyDict, raw_output |-> <<>>,
   raw_error |-> error_msg, tool_analytics |-> EmptyDict,
   error |-> error_msg, session_id |-> RunnerSession,
   branch_checkout |-> [success |-> FALSE, message |-> branch_message]]

\* lines 453-470, 480-497, 507-524, 534-551
IndexFailureResult(error_msg, index_creation_output, index_creation_error) ==
  [success |-> FALSE, output |-> EmptyDict, raw_output |-> <<>>,
   raw_error |-> error_msg, tool_analytics |-> EmptyDict,
   error |-> error_msg, session_id |-> RunnerSession,
   index_creation_failed |-> TRUE,
   index_creation_output |-> index_creation_output,
   index_creation_error |-> index_creation_error]

\* lines 659-668 and 673-682
HandlerResult(error_msg, stdout) ==
  [success |-> FALSE, output |-> EmptyDict, raw_output |-> stdout,
   raw_error |-> error_msg, tool_analytics |-> EmptyDict,
   error |-> error_msg]

\* line 621: what stands in for the structured output when no JSON was
\* extracted
FallbackOutput(stdout) == [raw_output |-> stdout]

\* lines 615-621
ParsedOutput(stdout) ==
  LET clean_json == extract_json_from_output(stdout)
  IN IF clean_json # None /\ clean_json # <<>>
     THEN [parsed |-> clean_json]
     ELSE FallbackOutput(stdout)

\* a success flag that also asks for the saved files
ResponseSuccessNeedsFiles(returncode, saved_files) ==
  returncode = 0 /\ saved_files # EmptyDict

\* line 629: the success flag looks at the exit code of the analysis only
ResponseSuccess(returncode, saved_files) == returncode = 0

\* analytics that are kept for a successful analysis only
ResponseAnalyticsOnSuccess(returncode, stdout) ==
  IF returncode = 0 THEN extract_tool_analytics(stdout) ELSE EmptyDict

\* line 626: the analytics are taken from the stdout whatever the exit code
ResponseAnalytics(returncode, stdout) == extract_tool_analytics(stdout)

\* lines 628-653
Response(returncode, stdout, stderr, saved_files) ==
  LET response ==
        [success |-> ResponseSuccess(returncode, saved_files),
         output |-> ParsedOutput(stdout),
         raw_output |-> clean_raw_output(stdout),
         raw_error |-> stderr,
         tool_analytics |-> ResponseAnalytics(returncode, stdout),
         error |-> IF returncode # 0 THEN stderr ELSE None,
         session_id |-> RunnerSession]
      checkout ==
        IF branch_name # NoBranch
        THEN [branch_checkout |->
                [success |-> TRUE,
                 message |-> <<"Successfully checked out branch ",
                               branch_name>>]]
        ELSE EmptyDict
      files ==
        IF saved_files # EmptyDict THEN [saved_files |-> saved_files]
        ELSE EmptyDict
  IN response @@ checkout @@ files

\* an except clause that names subprocess.TimeoutExpired only
OuterHandlerTimeoutOnly(exc) ==
  IF exc = "TimeoutExpired" THEN "timeout" ELSE "none"

\* lines 655 and 669: the except clauses of the outer try
OuterHandler(exc) ==
  IF exc = "TimeoutExpired" THEN "timeout" ELSE "exception"

\* an exception exc with text str_e leaves the body of the outer try after
\* the call went through evs
OuterExcept(exc, str_e, evs, sink) ==
  LET handler == OuterHandler(exc)
      error_msg == IF handler = "timeout"
                   THEN <<"Test timed out after 5 minutes">> ELSE str_e
  IN IF handler = "none"
     THEN /\ Emit(evs)
          /\ t_pc' = "raised"
          /\ UNCHANGED <<t_terminal, t_ret>>
     ELSE Return(evs \o <<SaveCall(stdout_output, error_msg, FALSE, sink)>>,
                 IF handler = "timeout" THEN "FAILED(analysis_timeout)"
                 ELSE "FAILED(analysis_exception)",
                 HandlerResult(error_msg, stdout_output))

\* a run_wingman_test call arrives
InitRunner ==
  /\ InitLog
  /\ OrchIdle
  /\ config = NoConfig
  /\ TextIdle
  /\ t_pc = "start"
  /\ branch_name \in Branches
  /\ t_trace = <<>>
  /\ index_path = None
  /\ stdout_output = <<>>
  /\ stderr_output = <<>>
  /\ t_terminal = "none"
  /\ t_ret = EmptyDict

\* lines 353-368
RunnerBegin ==
  /\ t_pc = "start"
  /\ IF branch_name # NoBranch
     THEN GoOn(<<LogLine("Starting test"), LogLine("Repository"),
                 LogLine("Checking out branch")>>, "checkout")
     ELSE GoOn(<<LogLine("Starting test"), LogLine("Repository")>>, "env")
  /\ UNCHANGED <<logRest, orchVars, textVars, branch_name, index_path,
                 stdout_output, stderr_output>>

\* a guard that lets the task go on after a failed checkout
BranchGuardIgnored(branch_success) == FALSE

\* line 370: the task stops when the checkout failed
BranchGuard(branch_success) == ~branch_success

\* lines 369-389; sink is what save_raw_output does when it is called (on
\* the path that does not call it, sink is fixed)
RunnerCheckout(o, sink) ==
  /\ t_pc = "checkout"
  /\ LET ret == checkout_branch(branch_name, o)
         branch_message == ret.message
         error_msg == <<"Branch checkout failed: ">> \o branch_message
         call == <<Called("checkout_branch"),
                   Returned("checkout_branch", ret)>>
     IN IF BranchGuard(ret.success)
        THEN Return(call \o <<LogLine("Branch checkout failed"),
                              SaveCall(<<>>, error_msg, FALSE, sink),
                              LogLine("Raw output saved to disk")>>,
                    "FAILED(branch_checkout_error)",
                    BranchFailureResult(error_msg, branch_message))
        ELSE /\ sink = "saved"
             /\ GoOn(call \o <<LogLine("Checked out")>>, "env")
  /\ UNCHANGED <<logRest, orchVars, textVars, branch_name, index_path,
                 stdout_output, stderr_output>>

\* lines 392-399; keyed tells whether config has the key 'perplexity_key'
RunnerEnv(keyed, sink) ==
  /\ t_pc = "env"
  /\ IF keyed
     THEN /\ sink = "saved"
          /\ GoOn(<<LogLine("Setting up environment variables..."),
                    LogLine("Environment variables configured"),
                    LogLine("Creating code context index...")>>, "index")
     ELSE OuterExcept("KeyError", <<"'perplexity_key'">>,
                      <<LogLine("Setting up environment variables...")>>,
                      sink)
  /\ UNCHANGED <<logRest, orchVars, textVars, branch_name, index_path,
                 stdout_output, stderr_output>>

\* what create_index does: exit 0 with the index path in its JSON output,
\* exit 0 with an INDEX_PATH= line, exit 0 with neither, a nonzero exit,
\* no exit within 60 seconds, an exception of subprocess.run
IndexOutcomes == {"json", "line", "nopath", "nonzero", "timeout", "exception"}
IndexStdout == <<"index stdout">>
IndexStderr == <<"index stderr">>

\* lines 425-440
ParseIndexPath(o) ==
  IF o \in {"json", "line"} THEN <<"index path">> ELSE None

\* a guard that lets the task go on without an index path
IndexPathGuardIgnored(path) == TRUE

\* line 527: the task goes on to the analysis when an index path was parsed
IndexPathGuard(path) == path # None

\* lines 399-575
RunnerIndex(o, sink) ==
  /\ t_pc = "index"
  /\ LET call == <<Called("create_index")>>
     IN CASE o = "nonzero" ->
               LET error_msg == <<"Index creation failed with exit code ", "1">>
               IN /\ Return(call \o
                              <<Returned("create_index", [returncode |-> 1]),
                                LogLine("Index creation failed"),
                                LogLine("Index creation stderr"),
                                SaveCall(IndexStdout, IndexStderr, FALSE, sink),
                                LogLine("Index creation output saved to disk")>>,
                            "FAILED(index_creation_failed)",
                            IndexFailureResult(error_msg, IndexStdout,
                                               IndexStderr))
                  /\ UNCHANGED index_path
          [] o = "timeout" ->
               LET error_msg == <<"Index creation timed out after 60 seconds">>
               IN /\ Return(call \o
                              <<Raised("create_index", "TimeoutExpired", <<>>),
                                LogLine("Index creation timed out"),
                                SaveCall(<<>>, error_msg, FALSE, sink),
                                LogLine("Index creation timeout info saved to disk")>>,
                            "FAILED(index_creation_timeout)",
                            IndexFailureResult(error_msg, <<>>, error_msg))
                  /\ UNCHANGED index_path
          [] o = "exception" ->
               LET error_msg == <<"Index creation failed with exception: ">>
                                  \o ExceptionText
               IN /\ Return(call \o
                              <<Raised("create_index", "OSError", <<>>),
                                LogLine("Index creation failed with exception"),
                                SaveCall(<<>>, error_msg, FALSE, sink),
                                LogLine("Index creation exception info saved to disk")>>,
                            "FAILED(index_creation_exception)",
                            IndexFailureResult(error_msg, <<>>, error_msg))
                  /\ UNCHANGED index_path
          [] OTHER ->
               LET path == ParseIndexPath(o)
                   created == call \o
                                <<Returned("create_index", [returncode |-> 0]),
                                  LogLine("Index created")>>
                   error_msg ==
                     <<"Index creation succeeded but no index path found">>
               IN /\ sink = "saved"
                  /\ index_path' = path
                  /\ IF IndexPathGuard(path)
                     THEN GoOn(created \o
                                 <<LogLine("Input file"),
                                   LogLine("Executing wingman analysis..."),
                                   LogLine("Starting analysis")>>,
                               "analysis")
                     ELSE Return(created \o <<LogLine(error_msg[1])>>,
                                 "FAILED(missing_index_path)",
                                 IndexFailureResult(
                                   error_msg, IndexStdout,
                                   <<"No index path found in successful output">>))
  /\ UNCHANGED <<logRest, orchVars, textVars, branch_name, stdout_output,
                 stderr_output>>

\* lines 577-653: the analysis process exits within 300 seconds
RunnerAnalysisExit(returncode, out, err, sink) ==
  /\ t_pc = "analysis"
  /\ stdout_output' = out
  /\ stderr_output' = err
  /\ LET saved_files == save_raw_output(err, sink)
         evs ==
           <<Called("wingman"),
             Returned("wingman", [returncode |-> returncode]),
             LogLine(IF returncode = 0 THEN "Analysis completed successfully"
                     ELSE "Analysis failed")>>
           \o (IF returncode # 0 /\ err # <<>> THEN <<LogLine("Error")>>
               ELSE <<>>)
           \o <<LogLine("Saving raw output to disk..."),
                SaveCall(out, err, returncode = 0, sink)>>
           \o (IF saved_files # EmptyDict THEN <<LogLine("Raw output saved")>>
               ELSE <<>>)
           \o <<LogLine("Parsing analysis results...")>>
     IN Return(evs,
               IF returncode = 0 THEN "SUCCEEDED"
               ELSE "FAILED(analysis_nonzero_exit)",
               Response(returncode, out, err, saved_files))
  /\ UNCHANGED <<logRest, orchVars, textVars, branch_name, index_path>>

\* what the analysis process had written to stdout when it was killed
PartialOutputs == {<<>>, <<"x">>}

\* lines 577-584 and 655-668: no exit within 300 seconds
RunnerAnalysisTimeout(captured, sink) ==
  /\ t_pc = "analysis"
  /\ OuterExcept("TimeoutExpired", <<>>,
                 <<Called("wingman"),
                   Raised("wingman", "TimeoutExpired", captured)>>, sink)
  /\ UNCHANGED <<logRest, orchVars, textVars, branch_name, index_path,
                 stdout_output, stderr_output>>

\* lines 577-584 and 669-682: subprocess.run raises something else
RunnerAnalysisException(sink) ==
  /\ t_pc = "analysis"
  /\ OuterExcept("OSError", ExceptionText,
                 <<Called("wingman"), Raised("wingman", "OSError", <<>>)>>,
                 sink)
  /\ UNCHANGED <<logRest, orchVars, textVars, branch_name, index_path,
                 stdout_output, stderr_output>>

NextRunner ==
  \/ RunnerBegin
  \/ \E o \in CheckoutOutcomes, sink \in SinkOutcomes : RunnerCheckout(o, sink)
  \/ \E keyed \in BOOLEAN, sink \in SinkOutcomes : RunnerEnv(keyed, sink)
  \/ \E o \in IndexOutcomes, sink \in SinkOutcomes : RunnerIndex(o, sink)
  \/ \E returncode \in {0, 1}, out \in Outputs, err \in StderrTexts,
        sink \in SinkOutcomes :
       RunnerAnalysisExit(returncode, out, err, sink)
  \/ \E captured \in PartialOutputs, sink \in SinkOutcomes :
       RunnerAnalysisTimeout(captured, sink)
  \/ \E sink \in SinkOutcomes : RunnerAnalysisException(sink)

SpecRunner == InitRunner /\ [][NextRunner]_vars

\* every external step ends (each subprocess.run has a timeout), so the
\* call keeps taking steps
SpecRunnerFair == SpecRunner /\ WF_vars(NextRunner)

(* ---------------------------- runner claims --------------------------- *)
ExternalSteps == {"checkout_branch", "create_index", "wingman"}

\* positions of t_trace at which an event of kind ev about fn stands
EventsOf(ev, fn) ==
  {i \in 1..Len(t_trace) : t_trace[i].ev = ev /\ t_trace[i].what = fn}

SaveCalls == EventsOf("save", "save_raw_output")

HasReturned == t_pc = "returned"

\* C12: whatever the external steps and the sink do, run_wingman_test
\* never lets an exception out, it does return, it returns a result record
\* from exactly one terminal state, and it takes no step after that.
RunnerAlwaysReturns ==
  /\ [](t_pc # "raised")
  /\ <>HasReturned
  /\ [](HasReturned <=> t_terminal # "none")
  /\ [](HasReturned => {"success", "error"} \subseteq DOMAIN t_ret)
  /\ [][~HasReturned]_vars

\* subprocess.run raised for the analysis, the sink failed to write, and
\* the call returned a result all the same
RunnerAlwaysReturnsWitness ==
  /\ HasReturned
  /\ t_terminal = "FAILED(analysis_exception)"
  /\ EventsOf("raise", "wingman") # {}
  /\ \E i \in SaveCalls : ~t_trace[i].saved
  /\ t_ret.success = FALSE

\* C13: a result returned from a FAILED terminal has success false and an
\* error string that is neither None nor empty.
FailedResultExplained ==
  (HasReturned /\ t_terminal # "SUCCEEDED") =>
    /\ t_ret.success = FALSE
    /\ t_ret.error # None
    /\ t_ret.error # <<>>

\* C14: when the call has returned from a FAILED terminal, save_raw_output
\* was called for the task.
OutputPersistedOnFailure ==
  (HasReturned /\ t_terminal # "SUCCEEDED") => SaveCalls # {}

\* the failure reasons of checkout_branch
CheckoutFailureReasons ==
  { <<"Failed to list branches: ">> \o GitStderr,
    <<"Branch ", branch_name, " does not exist in repository">>,
    <<"Failed to checkout branch ", branch_name, ": ">> \o GitStderr,
    <<"Timeout while checking out branch ", branch_name>>,
    <<"Error checking out branch ", branch_name, ": ">> \o ExceptionText }

\* C15: once checkout_branch has returned a failure, the call has returned
\* without calling create_index or the analysis, and its result has success
\* false and branch_checkout = {success: false, message: the reason that
\* checkout_branch returned}, which is one of the five failure reasons.
BranchGuardStops ==
  \A i \in EventsOf("return", "checkout_branch") :
    ~t_trace[i].value.success =>
      /\ EventsOf("call", "create_index") = {}
      /\ EventsOf("call", "wingman") = {}
      /\ HasReturned
      /\ t_ret.success = FALSE
      /\ t_ret.branch_checkout =
           [success |-> FALSE, message |-> t_trace[i].value.message]
      /\ t_trace[i].value.message \in CheckoutFailureReasons

\* the branch is not among the listed ones and the call has returned
BranchGuardStopsWitness ==
  /\ HasReturned
  /\ branch_name = "feature"
  /\ t_terminal = "FAILED(branch_checkout_error)"
  /\ t_ret.branch_checkout.message =
       <<"Branch ", "feature", " does not exist in repository">>

MentionsTimeout(text) ==
  \E i \in 1..Len(text) :
    text[i] \in {"Test timed out after 5 minutes",
                 "Index creation timed out after 60 seconds"}

\* C16: when the analysis exceeded its 300 seconds, the result has success
\* false and an error that mentions the timeout, and save_raw_output was
\* called after the timeout with the stdout that had been captured from
\* the analysis process.
AnalysisTimeoutSaved ==
  \A i \in EventsOf("raise", "wingman") :
    t_trace[i].exc = "TimeoutExpired" =>
      /\ HasReturned
      /\ t_ret.success = FALSE
      /\ MentionsTimeout(t_ret.error)
      /\ \E j \in SaveCalls : j > i /\ t_trace[j].stdout = t_trace[i].output

\* positions of the calls of the external steps
StepCalls == UNION {EventsOf("call", fn) : fn \in ExternalSteps}

\* the position at which the external call made at position i is over
StepEnd(i) == i + 1

\* C17: every line the call publishes is in the session's history, a line
\* is published right before every external call (branch checkout, index
\* creation, analysis), and once the call has returned, a line was
\* published after every external call, whatever its outcome.
ProgressAroundSteps ==
  /\ [k \in 1..Len(DictGet(active_logs, RunnerSession, <<>>)) |->
        active_logs[RunnerSession][k].message] = LogLinesOf(t_trace)
  /\ \A i \in StepCalls :
       /\ i > 1 /\ t_trace[i - 1].ev = "log"
       /\ HasReturned =>
            \E j \in (StepEnd(i) + 1)..Len(t_trace) : t_trace[j].ev = "log"

\* C19: when the analysis process has exited and extract_json_from_output
\* finds nothing in its stdout, the output field of the result holds the
\* cleaned stdout, and success depends on the exit code alone.
FallbackIsCleaned ==
  (/\ HasReturned
   /\ t_terminal \in {"SUCCEEDED", "FAILED(analysis_nonzero_exit)"}
   /\ extract_json_from_output(stdout_output) = None) =>
    /\ t_ret.output = [raw_output |-> clean_raw_output(stdout_output)]
    /\ t_ret.success = (t_terminal = "SUCCEEDED")

\* the exit code of the analysis process, when it has exited
AnalysisExited == EventsOf("return", "wingman") # {}
AnalysisReturncode ==
  LET i == CHOOSE i \in EventsOf("return", "wingman") : TRUE
  IN t_trace[i].value.returncode

\* success and error as the outcomes of the external steps alone give them
StepOutcomeSuccess == AnalysisExited /\ AnalysisReturncode = 0

StepOutcomeError ==
  IF AnalysisExited
    THEN IF AnalysisReturncode = 0 THEN None ELSE stderr_output
  ELSE IF \E i \in EventsOf("raise", "wingman") :
            t_trace[i].exc = "TimeoutExpired"
    THEN <<"Test timed out after 5 minutes">>
  ELSE IF EventsOf("raise", "wingman") # {} THEN ExceptionText
  ELSE IF \E i \in EventsOf("return", "create_index") :
            t_trace[i].value.returncode # 0
    THEN <<"Index creation failed with exit code ", "1">>
  ELSE IF EventsOf("return", "create_index") # {}
    THEN <<"Index creation succeeded but no index path found">>
  ELSE IF \E i \in EventsOf("raise", "create_index") :
            t_trace[i].exc = "TimeoutExpired"
    THEN <<"Index creation timed out after 60 seconds">>
  ELSE IF EventsOf("raise", "create_index") # {}
    THEN <<"Index creation failed with exception: ">> \o ExceptionText
  ELSE IF \E i \in EventsOf("return", "checkout_branch") :
            ~t_trace[i].value.success
    THEN LET i == CHOOSE i \in EventsOf("return", "checkout_branch") : TRUE
         IN <<"Branch checkout failed: ">> \o t_trace[i].value.message
  ELSE <<"'perplexity_key'">>

\* the record r without its field f
Without(r, f) == [k \in DOMAIN r \ {f} |-> r[k]]

\* C21: no call lets an exception out; the success flag and the error of a
\* returned result are what the outcomes of the external steps give, whatever
\* save_raw_output, extract_json_from_output and extract_tool_analytics did;
\* a save_raw_output that returned None leaves saved_files out of the
\* result, and on an exit of the analysis the result is otherwise the one
\* of a run whose files were saved.
SinkAndExtractionNonFatal ==
  /\ t_pc # "raised"
  /\ HasReturned =>
       /\ t_ret.success = StepOutcomeSuccess
       /\ t_ret.error = StepOutcomeError
       /\ (\E i \in SaveCalls : ~t_trace[i].saved) =>
            "saved_files" \notin DOMAIN t_ret
       /\ AnalysisExited =>
            /\ "saved_files" \in DOMAIN t_ret <=>
                 \E i \in SaveCalls : t_trace[i].saved
            /\ Without(t_ret, "saved_files") =
                 Without(Response(AnalysisReturncode, stdout_output,
                                  stderr_output,
                                  save_raw_output(stderr_output, "saved")),
                         "saved_files")

\* the analysis exited 0 with a stdout that holds nothing to extract, the
\* files could not be written, and the result is a success without
\* saved_files
SinkAndExtractionNonFatalWitness ==
  /\ HasReturned
  /\ AnalysisExited /\ AnalysisReturncode = 0
  /\ \E i \in SaveCalls : ~t_trace[i].saved
  /\ stdout_output # <<>>
  /\ extract_json_from_output(stdout_output) = None
  /\ t_ret.tool_analytics.tool_count = 0
  /\ t_ret.success = TRUE
  /\ t_ret.error = None
  /\ "saved_files" \notin DOMAIN t_ret

\* create_index ended in a way that does not give an index path
IndexCreationFailed ==
  \/ EventsOf("raise", "create_index") # {}
  \/ \E i \in EventsOf("return", "create_index") :
       t_trace[i].value.returncode # 0 \/ index_path = None

IndexFailureTerminals ==
  {"FAILED(index_creation_failed)", "FAILED(index_creation_timeout)",
   "FAILED(index_creation_exception)", "FAILED(missing_index_path)"}

\* C22: create_index is called at most once, and when a branch is set only
\* after checkout_branch returned success; the analysis is called at most
\* once and only after create_index exited 0 and an index path was parsed;
\* when create_index ended with a nonzero exit, a timeout, an exception or
\* an exit 0 without index path, the call has returned from one of the
\* index failure terminals and the analysis was not called.
StepOrdering ==
  /\ Cardinality(EventsOf("call", "create_index")) <= 1
  /\ Cardinality(EventsOf("call", "wingman")) <= 1
  /\ \A i \in EventsOf("call", "create_index") :
       branch_name # NoBranch =>
         \E j \in EventsOf("return", "checkout_branch") :
           j < i /\ t_trace[j].value.success
  /\ \A i \in EventsOf("call", "wingman") :
       /\ index_path # None
       /\ \E j \in EventsOf("return", "create_index") :
            j < i /\ t_trace[j].value.returncode = 0
  /\ IndexCreationFailed =>
       /\ HasReturned
       /\ t_terminal \in IndexFailureTerminals
       /\ EventsOf("call", "wingman") = {}

\* a task with a branch went through checkout, index creation and analysis,
\* each once
StepOrderingWitness ==
  /\ HasReturned
  /\ branch_name = "feature"
  /\ Cardinality(EventsOf("call", "checkout_branch")) = 1
  /\ Cardinality(EventsOf("call", "create_index")) = 1
  /\ Cardinality(EventsOf("call", "wingman")) = 1
  /\ index_path = <<"index path">>
  /\ t_terminal = "SUCCEEDED"

\* the three steps of the pipeline, as the trace shows them
CheckoutSucceeded ==
  branch_name # NoBranch =>
    \E i \in EventsOf("return", "checkout_branch") : t_trace[i].value.success

IndexCreated ==
  /\ \E i \in EventsOf("return", "create_index") :
       t_trace[i].value.returncode = 0
  /\ index_path # None

\* C23: a returned result has success true exactly when the checkout
\* succeeded (when a branch is set), create_index exited 0 with an index
\* path and the analysis exited 0; after a nonzero exit of the analysis the
\* result has success false, its output holds what extract_json_from_output
\* found in the captured stdout (or the fallback when it found nothing) and
\* its tool_analytics is extract_tool_analytics of that stdout.
SuccessMeansPipeline ==
  HasReturned =>
    /\ t_ret.success <=>
         /\ CheckoutSucceeded
         /\ IndexCreated
         /\ AnalysisExited /\ AnalysisReturncode = 0
    /\ (AnalysisExited /\ AnalysisReturncode # 0) =>
         LET clean_json == extract_json_from_output(stdout_output)
         IN /\ t_ret.success = FALSE
            /\ IF clean_json # None
               THEN t_ret.output = [parsed |-> clean_json]
               ELSE DOMAIN t_ret.output = {"raw_output"}
            /\ t_ret.tool_analytics = extract_tool_analytics(stdout_output)

\* the analysis wrote a fenced JSON block and exited 1: the result is a
\* failure that carries the block
SuccessMeansPipelineWitness ==
  /\ HasReturned
  /\ t_terminal = "FAILED(analysis_nonzero_exit)"
  /\ CheckoutSucceeded /\ IndexCreated
  /\ t_ret.success = FALSE
  /\ "parsed" \in DOMAIN t_ret.output
  /\ t_ret.output.parsed = <<EvOpen, "1", Close>>
  /\ "tool_count" \in DOMAIN t_ret.tool_analytics

(* ------------------------ broadcaster claims, II ---------------------- *)
\* the positions inside a "with log_lock" block
LockPositions == {"b_locked", "g_attach", "g_td", "r_read"}

\* the stream waits in log_queue.get(timeout=30), or is suspended at a
\* yield until its consumer asks for the next frame
StreamWaits(q) == pc[q] \in {"g_get", "g_yield"}

\* C24: a thread holds the lock exactly while it is inside one of the four
\* with blocks (publish, attach with replay, teardown, snapshot); a stream
\* that waits for an entry or for its consumer does not hold it; the holder
\* can always run to the release without waiting for anything; and when the
\* lock is free, a publish, an attach and a snapshot can enter at once,
\* whatever the streams are doing.
LockDiscipline ==
  /\ \A t \in Threads : log_lock = t <=> pc[t] \in LockPositions
  /\ \A q \in Streams : StreamWaits(q) => log_lock # q
  /\ log_lock \in Threads => ENABLED HolderStep(log_lock)
  /\ log_lock = Free =>
       /\ \A p \in Pubs : pc[p] = "b_wait" => ENABLED BroadcastAcquire(p)
       /\ (\E q \in Streams : pc[q] = "created") =>
            ENABLED (\E q \in Streams, s \in SessionInputs : StreamStart(q, s))
       /\ \A r \in Readers :
            pc[r] = "idle" =>
              ENABLED (\E s \in SessionInputs : SnapshotCall(r, s))

\* one stream waits on an empty queue, the other has an entry pending that
\* its consumer has not asked for, and a broadcast_log call on the second
\* stream's session holds the lock
LockDisciplineWitness ==
  /\ pc["q1"] = "g_get" /\ queues["q1"] = <<>>
  /\ StreamWaits("q2") /\ queues["q2"] # <<>>
  /\ \E p \in Pubs :
       /\ log_lock = p
       /\ pc[p] = "b_locked"
       /\ b_sid[p] = g_sid["q2"]

(* --------------------------- runner claims, II ------------------------ *)
\* C25: every result run_wingman_test returns, from the success path and
\* from every FAILED terminal, has a session_id field, and it is the session
\* the progress lines of the call were published to.
ResultNamesSession ==
  HasReturned =>
    /\ "session_id" \in DOMAIN t_ret
    /\ t_ret.session_id = RunnerSession
    /\ LogLinesOf(t_trace) # <<>> => RunnerSession \in DOMAIN active_logs

(* ------------------------ broadcaster claims, III --------------------- *)
LogEntryFields == {"timestamp", "message", "session_id"}

\* entry is a LogEntry of session s
IsLogEntry(entry, s) ==
  /\ DOMAIN entry = LogEntryFields
  /\ entry.session_id = s

\* C26: every entry of a session's history, and every entry a subscriber
\* of the session has got or has pending, replayed or live, is a record
\* with the fields timestamp, message and session_id, session_id being
\* that session.
UniformEntryShape ==
  /\ \A s \in DOMAIN active_logs :
       \A i \in 1..Len(active_logs[s]) : IsLogEntry(active_logs[s][i], s)
  /\ \A q \in Streams :
       \A i \in 1..Len(StreamEntries(q)) :
         IsLogEntry(StreamEntries(q)[i], g_sid[q])

IsPrefix(a, b) == Len(a) <= Len(b) /\ a = SubSeq(b, 1, Len(a))

StreamEnded(q) == pc[q] \in {"g_td", "g_closed"}

\* stream q yields a keepalive frame in this step
YieldsKeepalive(q) == yielded'[q] = Append(yielded[q], KeepaliveFrame)

\* C27: a stream yields a keepalive only when its queue is empty, and it
\* is then still registered and waiting, with nothing taken from its
\* queue; the messages it has yielded, keepalives left out, are the
\* beginning of the session's history, in order; a stream leaves its loop
\* only from a yield at which its consumer closed it; the cleanup of a
\* closed stream can always run, and after it the stream's queue is not
\* registered any more.
KeepaliveBehaviour ==
  /\ [][\A q \in Streams :
          YieldsKeepalive(q) =>
            /\ queues[q] = <<>>
            /\ queues'[q] = queues[q]
            /\ StreamWaits(q)'
            /\ IsAttached(q)']_vars
  /\ [](\A q \in Streams :
          HasAttached(q) =>
            IsPrefix(MessagesOf(YieldedEntries(q)),
                     MessagesOf(DictGet(active_logs, g_sid[q], <<>>))))
  /\ [][\A q \in Streams :
          (StreamEnded(q)' /\ ~StreamEnded(q)) => pc[q] = "g_yield"]_vars
  /\ [](\A q \in Streams :
          /\ pc[q] = "g_td" => (log_lock = q /\ ENABLED StreamTeardown(q))
          /\ pc[q] = "g_closed" => ~IsAttached(q))

\* a stream yielded an entry, a keepalive and the next entry, was closed by
\* its consumer and is not registered any more
KeepaliveBehaviourWitness ==
  \E q \in Streams :
    /\ Len(yielded[q]) = 3
    /\ yielded[q][2] = KeepaliveFrame
    /\ MessagesOf(YieldedEntries(q)) = <<"a", "b">>
    /\ pc[q] = "g_closed"
    /\ ~IsAttached(q)

(* ------------------------ orchestrator claims, II --------------------- *)
\* what a future may do in one step: wait, be taken by a pool thread, run,
\* end; it never goes back
FutureSteps ==
  {<<"pending", "pending">>, <<"pending", "running">>,
   <<"running", "running">>, <<"running", "finished">>,
   <<"finished", "finished">>}

\* C28: the futures of a repository are those of the tasks of its
\* expansion submitted so far, one per task, and none before the
\* repository is processed; a future is taken by a pool thread once and
\* runs once to its end; when the orchestrator has left the repository's
\* pool, by the end of the loop or by an exception, every task of the
\* expansion has a future and every future has finished.
EachTaskRunsOnce ==
  /\ [](\A r \in DOMAIN fut :
          /\ r > o_repo => fut[r] = <<>>
          /\ (r = o_repo /\ o_pc = "repo_loop") => fut[r] = <<>>
          /\ (r = o_repo /\ o_pc # "repo_loop") =>
               /\ repo_test_tasks = ExpandTasks(config, r)
               /\ Len(fut[r]) = o_submitted
               /\ o_submitted <= Len(repo_test_tasks)
          /\ HasLeftPool(r) =>
               /\ Len(fut[r]) = Len(ExpandTasks(config, r))
               /\ \A i \in 1..Len(fut[r]) : IsFinished(fut[r][i]))
  /\ [][\A r \in DOMAIN fut :
          \A i \in 1..Len(fut[r]) :
            /\ i <= Len(fut'[r])
            /\ <<fut[r][i], fut'[r][i]>> \in FutureSteps]_vars

\* the orchestrator left the pool of a repository with four tasks by the
\* exception of the first collected future, and all four tasks have run
EachTaskRunsOnceWitness ==
  /\ o_pc = "raised"
  /\ o_exc = "ValueError"
  /\ Cardinality(o_yielded) = 1
  /\ Len(repo_test_tasks) = 4
  /\ Len(fut[o_repo]) = 4
  /\ \A i \in 1..4 : IsFinished(fut[o_repo][i])

====
